---- MODULE Spec2Model ----
(***************************************************************************)
(* switch_audio: a command-line tool that lists the audio output devices,  *)
(* switches the default output to the next one, or to a device given by    *)
(* name.  The repository holds two variants of the program: src/main.c     *)
(* ("new") and src/unnamed/part_000 ("old").  One run of the program is    *)
(* one action: the tool is single-threaded and exits after one command.    *)
(*                                                                         *)
(* Strings (argv tokens, device names) are sequences of byte values.       *)
(* A printed line is <<tag, text1, text2>>, texts being byte sequences.    *)
(***************************************************************************)
EXTENDS Integers, Sequences, FiniteSets, TLC

\* ------------------------------------------------------------------ bounds
\* Longest platform device list (device ids are 1..MaxDevices).
MaxDevices == 3
\* Most command-line arguments after the program name.
MaxArgs == 3

\* ------------------------------------------------------- program constants
\* kAudioObjectUnknown: "no device" / "not found".
kAudioObjectUnknown == 0

VARIABLES
    variant,        \* "new" (src/main.c) or "old" (src/unnamed/part_000)
    devices,        \* platform: the device list, in enumeration order
    streams,        \* platform: id -> <<status, channel count of each buffer>>
    names,          \* platform: id -> <<resolvable, bytes>>
    defaultOutput,  \* platform: the default output register
    argv,           \* last run: argv[1..], each a byte sequence
    listErr,        \* last run: outcome of the device list query ("none": not made)
    curRead,        \* last run: what getCurrentDefaultOutputDevice returned (-1: not called)
    outputDevices,  \* last run: the output array built by switchToNextDevice
    found,          \* last run: what findDeviceByName returned (-1: not called)
    setCalls,       \* last run: the ids passed to setDefaultOutputDevice, in order
    setErr,         \* last run: whether a call to setDefaultOutputDevice failed
    out,            \* last run: the lines printed (stdout and stderr)
    exitCode,       \* last run: main's return value (-1: the program has not run)
    prevDefault,    \* last run: the default output register when the run began
    trailStart,     \* history: the register before the current streak of switches
    trail           \* history: the ids set by consecutive successful -n runs

vars == <<variant, devices, streams, names, defaultOutput, argv, listErr, curRead,
          outputDevices, found, setCalls, setErr, out, exitCode, prevDefault,
          trailStart, trail>>

platform == <<variant, devices, streams, names>>

Ids == 1..MaxDevices

\* ------------------------------------------------------------- strings
Opt_l == <<45, 108>>
Opt_list == <<45, 45, 108, 105, 115, 116>>
Opt_n == <<45, 110>>
Opt_next == <<45, 45, 110, 101, 120, 116>>
Opt_h == <<45, 104>>
Opt_help == <<45, 45, 104, 101, 108, 112>>
Options == {Opt_l, Opt_list, Opt_n, Opt_next, Opt_h, Opt_help}

\* "Unknown", printed for a name that could not be resolved.
UnknownText == <<85, 110, 107, 110, 111, 119, 110>>

\* strlen(s) of a C string held as its bytes.
strlen(s) == Len(s)

\* memcmp(a, b, n) == 0: the first n bytes agree.  Reading past the end of a C
\* string reads its terminating NUL, written 0 here.
ByteAt(s, i) == IF i <= Len(s) THEN s[i] ELSE 0

memcmpEq(a, b, n) == \A i \in 1..n : ByteAt(a, i) = ByteAt(b, i)

\* strcmp(a, b) == 0: the bytes agree up to and including the terminating NUL.
RECURSIVE strcmpFrom(_, _, _)
strcmpFrom(a, b, i) ==
    IF ByteAt(a, i) # ByteAt(b, i) THEN FALSE
    ELSE IF ByteAt(a, i) = 0 THEN TRUE
    ELSE strcmpFrom(a, b, i + 1)

strcmpEq(a, b) == strcmpFrom(a, b, 1)

\* ------------------------------------------------------ registry adapter
\* What getAudioDeviceList can come to: the size probe fails, the data fetch
\* fails, or the list is returned.  (A failing malloc is not modelled.)
ListOutcomes == {"ok", "sizeErr", "dataErr"}

\* getCurrentDefaultOutputDevice: the register, or the sentinel when the read fails.
getCurrentDefaultOutputDevice(readOk) ==
    IF readOk THEN defaultOutput ELSE kAudioObjectUnknown

\* getDeviceName: NULL (<<FALSE, <<>>>>) when the property query fails or yields
\* no string or the string cannot be converted, else the UTF-8 bytes.
NullName == <<FALSE, <<>>>>

getDeviceName(dev) ==
    IF ~names[dev][1] THEN NullName ELSE <<TRUE, names[dev][2]>>

\* A bug: only the first buffer's channel count is looked at.
ChannelLoopFirstOnly(bufs, i, hasOutput) ==
    IF i > Len(bufs) THEN hasOutput ELSE bufs[i] # 0

\* The loop of deviceSupportsOutput over the buffers, from buffer i on.
RECURSIVE ChannelLoop(_, _, _)
ChannelLoop(bufs, i, hasOutput) ==
    IF i > Len(bufs) THEN hasOutput
    ELSE IF bufs[i] = 0 THEN FALSE
    ELSE ChannelLoop(bufs, i + 1, hasOutput)

deviceSupportsOutput(dev) ==
    LET cfg == streams[dev] IN
    IF cfg[1] = "sizeErr" THEN FALSE
    ELSE IF cfg[1] = "dataErr" THEN FALSE
    ELSE ChannelLoop(cfg[2], 1, Len(cfg[2]) > 0)

\* ------------------------------------------------------------- -n / --next
\* A bug: the single pass records the loop index i, not the output count.
RECURSIVE SinglePassLoopIndex(_, _, _, _)
SinglePassLoopIndex(i, outDevs, currentIndex, currentDefault) ==
    IF i > Len(devices) THEN [outputDevices |-> outDevs, currentIndex |-> currentIndex]
    ELSE IF deviceSupportsOutput(devices[i])
    THEN SinglePassLoopIndex(i + 1, Append(outDevs, devices[i]),
                             IF devices[i] = currentDefault THEN i - 1 ELSE currentIndex,
                             currentDefault)
    ELSE SinglePassLoopIndex(i + 1, outDevs, currentIndex, currentDefault)

\* src/main.c: one pass builds the output array and records the index (from 0)
\* of the current default in it.
RECURSIVE SinglePass(_, _, _, _)
SinglePass(i, outDevs, currentIndex, currentDefault) ==
    IF i > Len(devices) THEN [outputDevices |-> outDevs, currentIndex |-> currentIndex]
    ELSE IF deviceSupportsOutput(devices[i])
    THEN SinglePass(i + 1, Append(outDevs, devices[i]),
                    IF devices[i] = currentDefault THEN Len(outDevs) ELSE currentIndex,
                    currentDefault)
    ELSE SinglePass(i + 1, outDevs, currentIndex, currentDefault)

\* src/unnamed/part_000: a pass builds the output array ...
RECURSIVE FilterPass(_, _)
FilterPass(i, outDevs) ==
    IF i > Len(devices) THEN outDevs
    ELSE IF deviceSupportsOutput(devices[i])
    THEN FilterPass(i + 1, Append(outDevs, devices[i]))
    ELSE FilterPass(i + 1, outDevs)

\* ... and a second loop finds the first index (from 0) of the current default.
RECURSIVE IndexSearch(_, _, _)
IndexSearch(outDevs, i, currentDefault) ==
    IF i >= Len(outDevs) THEN -1
    ELSE IF outDevs[i + 1] = currentDefault THEN i
    ELSE IndexSearch(outDevs, i + 1, currentDefault)

\* A bug: the current index is taken in the device list, not in the output array.
BuildOutputsRawIndex(currentDefault) ==
    [outputDevices |-> FilterPass(1, <<>>),
     currentIndex |-> IndexSearch(devices, 0, currentDefault)]

\* The output array and the current index, as the variant computes them.
BuildOutputs(currentDefault) ==
    IF variant = "new" THEN SinglePass(1, <<>>, -1, currentDefault)
    ELSE LET outDevs == FilterPass(1, <<>>) IN
         [outputDevices |-> outDevs,
          currentIndex |-> IndexSearch(outDevs, 0, currentDefault)]

\* A bug: the index stops at the last device instead of wrapping to the first.
NextIndexClamped(currentIndex, outputCount) ==
    IF currentIndex + 1 >= outputCount THEN outputCount - 1 ELSE currentIndex + 1

\* nextIndex = (currentIndex + 1) % outputCount
NextIndex(currentIndex, outputCount) == (currentIndex + 1) % outputCount

\* A bug: only an empty output array stops the switch.
CannotSwitchEmptyOnly(outputCount) == outputCount < 1

\* if (outputCount <= 1) { "Only one or no output devices available..."; return; }
CannotSwitch(outputCount) == outputCount <= 1

\* The text of "%s" for a name that may be NULL.
NameOrUnknown(name) == IF name[1] THEN name[2] ELSE UnknownText

\* The line printed when the device list cannot be fetched.
ListErrorLine(q) ==
    IF variant = "new" THEN <<"ErrList", <<>>, <<>>>>
    ELSE IF q = "sizeErr" THEN <<"ErrListSize", <<>>, <<>>>>
    ELSE <<"ErrList", <<>>, <<>>>>

\* A bug: a failed write is tried a second time.
switchToNextDeviceRetry(q, readOk, writeOk) ==
    IF q # "ok"
    THEN [curRead |-> -1, outputDevices |-> <<>>, setCalls |-> <<>>, setErr |-> FALSE,
          out |-> <<ListErrorLine(q)>>, newDefault |-> defaultOutput]
    ELSE
    LET currentDefault == getCurrentDefaultOutputDevice(readOk)
        built == BuildOutputs(currentDefault)
        outputCount == Len(built.outputDevices)
    IN  IF CannotSwitch(outputCount)
        THEN [curRead |-> currentDefault, outputDevices |-> built.outputDevices,
              setCalls |-> <<>>, setErr |-> FALSE,
              out |-> << <<"OnlyOne", <<>>, <<>>>> >>, newDefault |-> defaultOutput]
        ELSE
        LET nextDevice == built.outputDevices[NextIndex(built.currentIndex, outputCount) + 1]
        IN  [curRead |-> currentDefault, outputDevices |-> built.outputDevices,
             setCalls |-> IF writeOk THEN <<nextDevice>> ELSE <<nextDevice, nextDevice>>,
             setErr |-> ~writeOk,
             out |-> IF writeOk
                     THEN << <<"Switched", NameOrUnknown(getDeviceName(currentDefault)),
                               NameOrUnknown(getDeviceName(nextDevice))>> >>
                     ELSE << <<"FailedSet", <<>>, <<>>>> >>,
             newDefault |-> IF writeOk THEN nextDevice ELSE defaultOutput]

\* switchToNextDevice: what one call does, given the outcomes of its platform
\* calls (q: the list query, readOk: the register read, writeOk: the write).
switchToNextDevice(q, readOk, writeOk) ==
    IF q # "ok"
    THEN [curRead |-> -1, outputDevices |-> <<>>, setCalls |-> <<>>, setErr |-> FALSE,
          out |-> <<ListErrorLine(q)>>, newDefault |-> defaultOutput]
    ELSE
    LET currentDefault == getCurrentDefaultOutputDevice(readOk)
        built == BuildOutputs(currentDefault)
        outputCount == Len(built.outputDevices)
    IN  IF CannotSwitch(outputCount)
        THEN [curRead |-> currentDefault, outputDevices |-> built.outputDevices,
              setCalls |-> <<>>, setErr |-> FALSE,
              out |-> << <<"OnlyOne", <<>>, <<>>>> >>, newDefault |-> defaultOutput]
        ELSE
        LET nextIndex == NextIndex(built.currentIndex, outputCount)
            nextDevice == built.outputDevices[nextIndex + 1]
            currentName == getDeviceName(currentDefault)
            nextName == getDeviceName(nextDevice)
        IN  [curRead |-> currentDefault, outputDevices |-> built.outputDevices,
             setCalls |-> <<nextDevice>>, setErr |-> ~writeOk,
             out |-> IF writeOk
                     THEN << <<"Switched", NameOrUnknown(currentName),
                               NameOrUnknown(nextName)>> >>
                     ELSE << <<"FailedSet", <<>>, <<>>>> >>,
             newDefault |-> IF writeOk THEN nextDevice ELSE defaultOutput]

\* The ids a variant's selection passes to setDefaultOutputDevice: none when it
\* declines to switch, else the device at nextIndex of its output array.
SelectedBy(built) ==
    LET outputCount == Len(built.outputDevices) IN
    IF CannotSwitch(outputCount) THEN <<>>
    ELSE <<built.outputDevices[NextIndex(built.currentIndex, outputCount) + 1]>>

\* src/main.c: the selection of the single pass.
SelectionNew(currentDefault) == SelectedBy(SinglePass(1, <<>>, -1, currentDefault))

\* src/unnamed/part_000: the selection of the filter pass and the index search.
SelectionOld(currentDefault) ==
    LET outDevs == FilterPass(1, <<>>) IN
    SelectedBy([outputDevices |-> outDevs,
                currentIndex |-> IndexSearch(outDevs, 0, currentDefault)])

\* ------------------------------------------------------------- -l / --list
\* The loop of listAudioDevices from device i on: the lines printed so far and
\* the number of devices printed (counted by the old variant only).
RECURSIVE ListLoop(_, _, _, _)
ListLoop(i, lines, outputDeviceCount, currentDefault) ==
    IF i > Len(devices) THEN [lines |-> lines, outputDeviceCount |-> outputDeviceCount]
    ELSE LET dev == devices[i] IN
         IF ~deviceSupportsOutput(dev)
         THEN ListLoop(i + 1, lines, outputDeviceCount, currentDefault)
         ELSE LET deviceName == getDeviceName(dev) IN
              IF deviceName[1]
              THEN ListLoop(i + 1,
                            Append(lines,
                                   IF dev = currentDefault
                                   THEN <<(IF variant = "new" THEN "ItemCur"
                                           ELSE "ItemCurDefault"), deviceName[2], <<>>>>
                                   ELSE <<"Item", deviceName[2], <<>>>>),
                            outputDeviceCount + 1, currentDefault)
              ELSE ListLoop(i + 1, lines, outputDeviceCount, currentDefault)

ListHeader == << <<"ListTitle", <<>>, <<>>>>, <<"ListRule", <<>>, <<>>>> >>

\* What follows the device lines: nothing in src/main.c; the count or "No output
\* devices found." in src/unnamed/part_000.
ListFooter(outputDeviceCount) ==
    IF variant = "new" THEN <<>>
    ELSE IF outputDeviceCount = 0 THEN << <<"NoOutputDevices", <<>>, <<>>>> >>
    ELSE << <<"Found", <<outputDeviceCount>>, <<>>>>, <<"Legend", <<>>, <<>>>> >>

listAudioDevices(q, readOk) ==
    IF q # "ok"
    THEN [curRead |-> -1, out |-> <<ListErrorLine(q)>>]
    ELSE LET currentDefault == getCurrentDefaultOutputDevice(readOk)
             looped == ListLoop(1, ListHeader, 0, currentDefault)
         IN  [curRead |-> currentDefault,
              out |-> looped.lines \o ListFooter(looped.outputDeviceCount)]

\* ------------------------------------------------------------ by device name
\* A bug: the length check is left out, so a name that starts with the wanted
\* name matches.
MatchMemcmpOnly(deviceName, wantedName) ==
    memcmpEq(deviceName, wantedName, strlen(wantedName))

\* src/main.c: strlen(deviceName) == wantedLen && memcmp(...) == 0
MatchLenMemcmp(deviceName, wantedName) ==
    strlen(deviceName) = strlen(wantedName)
    /\ memcmpEq(deviceName, wantedName, strlen(wantedName))

\* src/unnamed/part_000: strcmp(deviceName, wantedName) == 0
MatchStrcmp(deviceName, wantedName) == strcmpEq(deviceName, wantedName)

NameMatches(deviceName, wantedName) ==
    IF variant = "new" THEN MatchLenMemcmp(deviceName, wantedName)
    ELSE MatchStrcmp(deviceName, wantedName)

\* The loop of findDeviceByName from device i on.  src/main.c leaves the loop by
\* its condition (found == kAudioObjectUnknown), part_000 by break.
RECURSIVE FindLoop(_, _, _)
FindLoop(i, foundDev, wantedName) ==
    IF i > Len(devices) \/ foundDev # kAudioObjectUnknown THEN foundDev
    ELSE LET dev == devices[i] IN
         IF ~deviceSupportsOutput(dev) THEN FindLoop(i + 1, foundDev, wantedName)
         ELSE LET deviceName == getDeviceName(dev) IN
              IF deviceName[1] /\ NameMatches(deviceName[2], wantedName)
              THEN FindLoop(i + 1, dev, wantedName)
              ELSE FindLoop(i + 1, foundDev, wantedName)

findDeviceByName(wantedName, q) ==
    IF q # "ok"
    THEN [found |-> kAudioObjectUnknown,
          out |-> IF variant = "new" THEN <<>> ELSE <<ListErrorLine(q)>>]
    ELSE [found |-> FindLoop(1, kAudioObjectUnknown, wantedName), out |-> <<>>]

\* ---------------------------------------------------------------- main
UsageLine == <<"Usage", <<>>, <<>>>>

\* A bug: a failed write is reported but the exit code stays 0.
setByNameExitZero(deviceName, q, writeOk) ==
    LET looked == findDeviceByName(deviceName, q)
        dev == looked.found
    IN  IF dev = kAudioObjectUnknown
        THEN [found |-> dev, setCalls |-> <<>>, setErr |-> FALSE,
              out |-> looked.out \o << <<"NotFound", deviceName, <<>>>>,
                                       <<"HintList", <<>>, <<>>>> >>,
              exitCode |-> 1, newDefault |-> defaultOutput]
        ELSE [found |-> dev, setCalls |-> <<dev>>, setErr |-> ~writeOk,
              out |-> looked.out \o
                      (IF writeOk THEN << <<"SwitchedTo", deviceName, <<>>>> >>
                       ELSE << <<"FailedSet", <<>>, <<>>>> >>),
              exitCode |-> 0,
              newDefault |-> IF writeOk THEN dev ELSE defaultOutput]

\* A bug: the "not found" check is left out, so the sentinel is written.
setByNameUnchecked(deviceName, q, writeOk) ==
    LET looked == findDeviceByName(deviceName, q)
        dev == looked.found
    IN  [found |-> dev, setCalls |-> <<dev>>, setErr |-> ~writeOk,
         out |-> looked.out \o
                 (IF writeOk THEN << <<"SwitchedTo", deviceName, <<>>>> >>
                  ELSE << <<"FailedSet", <<>>, <<>>>> >>),
         exitCode |-> IF writeOk THEN 0 ELSE 1,
         newDefault |-> IF writeOk THEN dev ELSE defaultOutput]

\* main, from "const char* deviceName = argv[1]" on.
setByName(deviceName, q, writeOk) ==
    LET looked == findDeviceByName(deviceName, q)
        dev == looked.found
    IN  IF dev = kAudioObjectUnknown
        THEN [found |-> dev, setCalls |-> <<>>, setErr |-> FALSE,
              out |-> looked.out \o << <<"NotFound", deviceName, <<>>>>,
                                       <<"HintList", <<>>, <<>>>> >>,
              exitCode |-> 1, newDefault |-> defaultOutput]
        ELSE IF ~writeOk
        THEN [found |-> dev, setCalls |-> <<dev>>, setErr |-> TRUE,
              out |-> looked.out \o << <<"FailedSet", <<>>, <<>>>> >>,
              exitCode |-> 1, newDefault |-> defaultOutput]
        ELSE [found |-> dev, setCalls |-> <<dev>>, setErr |-> FALSE,
              out |-> looked.out \o << <<"SwitchedTo", deviceName, <<>>>> >>,
              exitCode |-> 0, newDefault |-> dev]

IsList(arg) == strcmpEq(arg, Opt_l) \/ strcmpEq(arg, Opt_list)
IsNext(arg) == strcmpEq(arg, Opt_n) \/ strcmpEq(arg, Opt_next)
IsHelp(arg) == strcmpEq(arg, Opt_h) \/ strcmpEq(arg, Opt_help)

\* argc, counting the program name.
Argc(args) == Len(args) + 1

\* ------------------------------------------------------------- the inputs
\* Device lists: the ids of a device list are pairwise distinct, and the unknown
\* id 0 is no device.
DeviceLists ==
    {l \in UNION {[1..k -> Ids] : k \in 0..MaxDevices} :
        \A i, j \in DOMAIN l : i # j => l[i] # l[j]}

\* Device lists in id order only.
OrderedLists == {[i \in 1..k |-> i] : k \in 0..MaxDevices}

\* What the platform answers about one device: <<output stream configuration,
\* name>>.  A configuration is <<status, channel count of each buffer>>.
Stereo == <<"ok", <<2>>>>
NoBuffer == <<"ok", <<>>>>
NameA == <<TRUE, <<97>>>>
NameAB == <<TRUE, <<97, 98>>>>

\* One output buffer or none; every device is named "a".
PlainProfiles == {<<Stereo, NameA>>, <<NoBuffer, NameA>>}

\* Output devices named "a", "ab" or without a resolvable name, and a device
\* named "a" that has no output.
NameProfiles ==
    {<<Stereo, NameA>>, <<Stereo, NameAB>>, <<Stereo, NullName>>, <<NoBuffer, NameA>>}

\* The configurations that probe deviceSupportsOutput: each failure, no buffer,
\* two buffers with channels, and two buffers of which one has none.
ProbeProfiles ==
    {<<cfg, NameA>> :
        cfg \in {<<"sizeErr", <<>>>>, <<"dataErr", <<>>>>, NoBuffer,
                 <<"ok", <<2, 2>>>>, <<"ok", <<2, 0>>>>, <<"ok", <<0, 2>>>>}}

\* Names wanted on the command line: "a", "ab", "A", "b".
WantedNames == {<<97>>, <<97, 98>>, <<65>>, <<98>>}

\* argv[2..]: the program never reads them; each is the name "a".
ExtraArgs == {[i \in 1..k |-> <<97>>] : k \in 0..(MaxArgs - 1)}

\* The platform and a fresh process.  A device that is not in the list is no
\* live object: its queries fail.  The default output is any id or the sentinel.
InitWith(Lists, Profiles) ==
    /\ variant \in {"new", "old"}
    /\ devices \in Lists
    /\ \E profile \in [Ids -> Profiles] :
         /\ streams = [id \in Ids |->
                          IF id \in {devices[i] : i \in DOMAIN devices}
                          THEN profile[id][1] ELSE <<"sizeErr", <<>>>>]
         /\ names = [id \in 0..MaxDevices |->
                          IF id \in {devices[i] : i \in DOMAIN devices}
                          THEN profile[id][2] ELSE NullName]
    /\ defaultOutput \in 0..MaxDevices
    /\ argv = <<>>
    /\ listErr = "none"
    /\ curRead = -1
    /\ outputDevices = <<>>
    /\ found = -1
    /\ setCalls = <<>>
    /\ setErr = FALSE
    /\ out = <<>>
    /\ exitCode = -1
    /\ prevDefault = defaultOutput
    /\ trailStart = kAudioObjectUnknown
    /\ trail = <<>>

\* Every device list; each device has one output buffer or none.
Init == InitWith(DeviceLists, PlainProfiles)

\* ------------------------------------------------------------- the runs
\* A run starts in a fresh process (exitCode = -1), records its arguments and
\* the register as it found it, and leaves the rest of the platform alone.
Begin(args) ==
    /\ argv' = args
    /\ prevDefault' = defaultOutput
    /\ UNCHANGED platform

NoStreak == trailStart' = kAudioObjectUnknown /\ trail' = <<>>

\* if (argc < 2) { printUsage; return 1; }
Usage ==
    /\ exitCode = -1
    /\ \E args \in {<<>>} :
        /\ Argc(args) < 2
        /\ Begin(args)
        /\ out' = <<UsageLine>>
        /\ exitCode' = 1
        /\ listErr' = "none" /\ curRead' = -1 /\ outputDevices' = <<>>
        /\ found' = -1 /\ setCalls' = <<>> /\ setErr' = FALSE
        /\ UNCHANGED defaultOutput
        /\ NoStreak

\* -l, --list: listAudioDevices(); return 0;
ListCmd ==
    /\ exitCode = -1
    /\ \E first \in Options, rest \in ExtraArgs :
      /\ IsList(first)
      /\ \E q \in ListOutcomes, readOk \in BOOLEAN :
        LET args == <<first>> \o rest
            r == listAudioDevices(q, readOk)
        IN  /\ q # "ok" => readOk
            /\ Begin(args)
            /\ listErr' = q
            /\ curRead' = r.curRead
            /\ out' = r.out
            /\ exitCode' = 0
            /\ outputDevices' = <<>> /\ found' = -1 /\ setCalls' = <<>> /\ setErr' = FALSE
            /\ UNCHANGED defaultOutput
            /\ NoStreak

\* -n, --next: switchToNextDevice(); return 0;
\* A streak is a run of consecutive -n runs that each read the register and
\* wrote it; its window restarts once it holds MaxDevices switches.
NextCmd ==
    /\ exitCode = -1
    /\ \E first \in Options, rest \in ExtraArgs :
      /\ ~IsList(first)
      /\ IsNext(first)
      /\ \E q \in ListOutcomes, readOk \in BOOLEAN, writeOk \in BOOLEAN :
        LET args == <<first>> \o rest
            r == switchToNextDevice(q, readOk, writeOk)
            switched == r.setCalls # <<>> /\ ~r.setErr /\ readOk
        IN  /\ q # "ok" => readOk /\ writeOk
            /\ r.setCalls = <<>> => writeOk
            /\ Begin(args)
            /\ listErr' = q
            /\ curRead' = r.curRead
            /\ outputDevices' = r.outputDevices
            /\ setCalls' = r.setCalls
            /\ setErr' = r.setErr
            /\ out' = r.out
            /\ exitCode' = 0
            /\ found' = -1
            /\ defaultOutput' = r.newDefault
            /\ IF ~switched THEN NoStreak
               ELSE IF trail = <<>> \/ Len(trail) >= MaxDevices
               THEN trailStart' = defaultOutput /\ trail' = r.setCalls
               ELSE trailStart' = trailStart /\ trail' = trail \o r.setCalls

\* -h, --help: printUsage; return 0;
HelpCmd ==
    /\ exitCode = -1
    /\ \E first \in Options, rest \in ExtraArgs :
        LET args == <<first>> \o rest
        IN  /\ ~IsList(args[1]) /\ ~IsNext(args[1])
            /\ IsHelp(args[1])
            /\ Begin(args)
            /\ out' = <<UsageLine>>
            /\ exitCode' = 0
            /\ listErr' = "none" /\ curRead' = -1 /\ outputDevices' = <<>>
            /\ found' = -1 /\ setCalls' = <<>> /\ setErr' = FALSE
            /\ UNCHANGED defaultOutput
            /\ NoStreak

\* if (argc != 2) { "Error: Please provide exactly one device name."; printUsage; return 1; }
ArgCountError ==
    /\ exitCode = -1
    /\ \E first \in WantedNames, rest \in ExtraArgs :
        LET args == <<first>> \o rest
        IN  /\ ~IsList(args[1]) /\ ~IsNext(args[1]) /\ ~IsHelp(args[1])
            /\ Argc(args) # 2
            /\ Begin(args)
            /\ out' = << <<"ErrOneName", <<>>, <<>>>>, UsageLine >>
            /\ exitCode' = 1
            /\ listErr' = "none" /\ curRead' = -1 /\ outputDevices' = <<>>
            /\ found' = -1 /\ setCalls' = <<>> /\ setErr' = FALSE
            /\ UNCHANGED defaultOutput
            /\ NoStreak

\* One device name: find it and make it the default output.
SetByName ==
    /\ exitCode = -1
    /\ \E first \in WantedNames, rest \in ExtraArgs :
      /\ ~IsList(first) /\ ~IsNext(first) /\ ~IsHelp(first)
      /\ Argc(<<first>> \o rest) = 2
      /\ \E q \in ListOutcomes, writeOk \in BOOLEAN :
        LET args == <<first>> \o rest
            r == setByName(args[1], q, writeOk)
        IN  /\ r.setCalls = <<>> => writeOk
            /\ Begin(args)
            /\ listErr' = q
            /\ found' = r.found
            /\ setCalls' = r.setCalls
            /\ setErr' = r.setErr
            /\ out' = r.out
            /\ exitCode' = r.exitCode
            /\ curRead' = -1 /\ outputDevices' = <<>>
            /\ defaultOutput' = r.newDefault
            /\ NoStreak

\* The process has exited: nothing of the run outlives it but the register.
\* The next run starts from here.
ProcessExit ==
    /\ exitCode # -1
    /\ argv' = <<>>
    /\ listErr' = "none"
    /\ curRead' = -1
    /\ outputDevices' = <<>>
    /\ found' = -1
    /\ setCalls' = <<>>
    /\ setErr' = FALSE
    /\ out' = <<>>
    /\ exitCode' = -1
    /\ prevDefault' = defaultOutput
    /\ UNCHANGED <<platform, defaultOutput, trailStart, trail>>

Next ==
    Usage \/ ListCmd \/ NextCmd \/ HelpCmd \/ ArgCountError \/ SetByName \/ ProcessExit

Spec == Init /\ [][Next]_vars

\* The same program over device lists in id order, with the device names.
InitNames == InitWith(OrderedLists, NameProfiles)

SpecNames == InitNames /\ [][Next]_vars

\* The same program over device lists in id order, with the stream
\* configurations that probe deviceSupportsOutput.
InitStreams == InitWith(OrderedLists, ProbeProfiles)

SpecStreams == InitStreams /\ [][Next]_vars

\* ======================================================== the properties
\* What the properties are stated in: the specification's own words, not the
\* program's loops.
Range(seq) == {seq[i] : i \in DOMAIN seq}

\* supportsOutput: at least one buffer, and every buffer has a channel.
SupportsOutput(id) ==
    /\ streams[id][1] = "ok"
    /\ Len(streams[id][2]) >= 1
    /\ \A i \in DOMAIN streams[id][2] : streams[id][2][i] # 0

IsOutput(id) == SupportsOutput(id)

\* The filtered output list: the output-capable devices, in list order.
Filtered == SelectSeq(devices, IsOutput)

\* The index (from 0) of id in seq, -1 when it is absent.
PositionIn(seq, id) ==
    IF id \in Range(seq) THEN (CHOOSE i \in DOMAIN seq : seq[i] = id) - 1 ELSE -1

\* The last run was -l / -n / one device name.
Exited == exitCode # -1
RanList == Exited /\ Len(argv) >= 1 /\ argv[1] \in {Opt_l, Opt_list}
RanNext == Exited /\ Len(argv) >= 1 /\ argv[1] \in {Opt_n, Opt_next}
RanHelp == Exited /\ Len(argv) >= 1 /\ argv[1] \in {Opt_h, Opt_help}
RanByName == Exited /\ Len(argv) = 1 /\ argv[1] \notin Options

Line(tag) == <<tag, <<>>, <<>>>>

\* C1: with an unchanging platform whose filtered list has n >= 2 devices and
\* whose default is one of them, the k-th of a streak of successful -n runs sets
\* the default to the device k places after the starting one in the filtered
\* list, wrapping from the last to the first: so the first n - 1 runs visit every
\* other device once and the n-th restores the starting default.
C1_NextCycles ==
    LET n == Len(Filtered)
        start == PositionIn(Filtered, trailStart)
    IN  (n >= 2 /\ trail # <<>> /\ start # -1) =>
            /\ \A k \in DOMAIN trail : trail[k] = Filtered[((start + k) % n) + 1]
            /\ \A k \in DOMAIN trail : (k < n => trail[k] # trailStart)
            /\ \A j, k \in DOMAIN trail : (j < k /\ k <= n) => trail[j] # trail[k]
            /\ Len(trail) >= n => trail[n] = trailStart

\* A streak went once round a filtered list of three or more devices.
C1_Witness ==
    /\ Len(Filtered) >= 3
    /\ Len(trail) = Len(Filtered)
    /\ trailStart \in Range(Filtered)
    /\ trail[Len(trail)] = trailStart

\* C2: when the filtered list has two or more devices, -n passes to
\* setDefaultOutputDevice exactly filtered[(position + 1) mod length], position
\* being the index of the current default in the filtered list, -1 when it is
\* absent (the unknown sentinel included): an absent default selects filtered[0].
C2_NextTarget ==
    (RanNext /\ listErr = "ok" /\ Len(Filtered) >= 2) =>
        LET position == PositionIn(Filtered, curRead) IN
        /\ setCalls = <<Filtered[((position + 1) % Len(Filtered)) + 1]>>
        /\ position = -1 => setCalls = <<Filtered[1]>>

\* -n ran with a default that is a device id, yet not in the filtered list.
C2_Witness ==
    /\ RanNext /\ listErr = "ok" /\ Len(Filtered) >= 2
    /\ curRead # kAudioObjectUnknown
    /\ curRead \notin Range(Filtered)
    /\ setCalls = <<Filtered[1]>>
    /\ Filtered[1] # devices[1]

\* C3: when the filtered list has fewer than two devices, -n prints "Only one or
\* no output devices available. Cannot switch.", does not call
\* setDefaultOutputDevice, leaves the default output as it was and exits 0.
C3_NothingToSwitch ==
    (RanNext /\ listErr = "ok" /\ Len(Filtered) < 2) =>
        /\ out = <<Line("OnlyOne")>>
        /\ setCalls = <<>>
        /\ defaultOutput = prevDefault
        /\ exitCode = 0

\* -n ran with exactly one output device among several devices.
C3_Witness ==
    /\ RanNext /\ listErr = "ok"
    /\ Len(Filtered) = 1 /\ Len(devices) >= 2
    /\ out = <<Line("OnlyOne")>>

\* The devices a name lookup may return: output-capable, with a resolvable name
\* that is the wanted name byte for byte.
Named(wanted) ==
    {i \in DOMAIN devices :
        /\ SupportsOutput(devices[i])
        /\ names[devices[i]][1]
        /\ names[devices[i]][2] = wanted}

\* The earliest of them, the unknown sentinel when there is none.
EarliestNamed(wanted) ==
    IF Named(wanted) = {} THEN kAudioObjectUnknown
    ELSE devices[CHOOSE i \in Named(wanted) : \A j \in Named(wanted) : i <= j]

\* C4: findDeviceByName returns the earliest device of the list that is
\* output-capable and has a resolvable name equal to the wanted name byte for
\* byte, and the unknown sentinel when there is none (or no list).
C4_FindByName ==
    RanByName =>
        found = (IF listErr = "ok" THEN EarliestNamed(argv[1]) ELSE kAudioObjectUnknown)

\* A lookup passed over an output device whose name only starts with the wanted
\* name, and took the earlier of two devices with the wanted name.
C4_Witness ==
    /\ RanByName /\ listErr = "ok"
    /\ found # kAudioObjectUnknown
    /\ Cardinality(Named(argv[1])) >= 2
    /\ \E i \in DOMAIN devices :
         /\ i < (CHOOSE j \in Named(argv[1]) : devices[j] = found)
         /\ SupportsOutput(devices[i])
         /\ names[devices[i]][1]
         /\ Len(names[devices[i]][2]) > Len(argv[1])
         /\ SubSeq(names[devices[i]][2], 1, Len(argv[1])) = argv[1]

\* C5: a device name that no output-capable device has is reported as not found
\* with the hint to use -l, the exit code is 1, setDefaultOutputDevice is not
\* called and the default output stays; a name that is found is written once,
\* and the exit code is 0 if the write succeeds and 1 if it fails.
C5_SetByName ==
    RanByName =>
        LET target == IF listErr = "ok" THEN EarliestNamed(argv[1])
                      ELSE kAudioObjectUnknown
        IN  IF target = kAudioObjectUnknown
            THEN /\ <<"NotFound", argv[1], <<>>>> \in Range(out)
                 /\ Line("HintList") \in Range(out)
                 /\ exitCode = 1
                 /\ setCalls = <<>>
                 /\ defaultOutput = prevDefault
            ELSE /\ setCalls = <<target>>
                 /\ exitCode = (IF setErr THEN 1 ELSE 0)
                 /\ setErr => defaultOutput = prevDefault
                 /\ ~setErr => defaultOutput = target

\* The write of a found device failed: exit code 1 and the default stayed.
C5_Witness ==
    /\ RanByName /\ listErr = "ok"
    /\ setCalls # <<>> /\ setErr
    /\ exitCode = 1
    /\ setCalls[1] # prevDefault

\* C6: the unknown sentinel 0 is never in the filtered output list, and
\* setDefaultOutputDevice is never called with it, by -n or by a device name.
C6_NeverUnknown ==
    /\ kAudioObjectUnknown \notin Range(Filtered)
    /\ kAudioObjectUnknown \notin Range(outputDevices)
    /\ \A i \in DOMAIN setCalls : setCalls[i] # kAudioObjectUnknown

\* A name lookup came back with the sentinel and nothing was written.
C6_Witness ==
    /\ RanByName /\ listErr = "ok"
    /\ found = kAudioObjectUnknown
    /\ Filtered # <<>>
    /\ setCalls = <<>>

\* C7 (as claimed): a run in which the device list query or the write of the
\* default output failed prints a diagnostic and exits with a non-zero code.
C7_FailureExitsNonZero ==
    (Exited /\ (listErr \in {"sizeErr", "dataErr"} \/ setErr)) =>
        /\ out # <<>>
        /\ exitCode # 0

\* C8 (as claimed): -l with no output-capable device prints "No output devices
\* found." and exits 0; with at least one it prints each filtered device's name,
\* marks the current default, and prints a count.
C8_ListReport ==
    (RanList /\ listErr = "ok") =>
        /\ exitCode = 0
        /\ IF Filtered = <<>>
           THEN Line("NoOutputDevices") \in Range(out)
           ELSE /\ \A i \in DOMAIN Filtered :
                     \E k \in DOMAIN out :
                        /\ out[k][2] = names[Filtered[i]][2]
                        /\ out[k][1] = (IF Filtered[i] = curRead
                                        THEN (IF variant = "new" THEN "ItemCur"
                                              ELSE "ItemCurDefault")
                                        ELSE "Item")
                /\ \E k \in DOMAIN out : out[k] = <<"Found", <<Len(Filtered)>>, <<>>>>

\* The arguments that are no option.
Positional(args) == {i \in DOMAIN args : args[i] \notin Options}

\* C9 (as claimed): a run with no argument or with more than one positional
\* argument prints the usage text, lists nothing, switches nothing and exits 1;
\* -h / --help exits 0; one positional argument alone is a device name to set.
C9_ArgumentErrors ==
    Exited =>
        /\ (Len(argv) = 0 \/ Cardinality(Positional(argv)) > 1) =>
              /\ Line("Usage") \in Range(out)
              /\ exitCode = 1
              /\ listErr = "none" /\ setCalls = <<>>
        /\ (RanHelp /\ Cardinality(Positional(argv)) <= 1) => exitCode = 0
        /\ RanByName => found # -1

\* The device lines of a listing: the names printed, in order.
ItemTexts ==
    LET items == SelectSeq(out, LAMBDA l : l[1] \in {"Item", "ItemCur", "ItemCurDefault"})
    IN  [k \in DOMAIN items |-> items[k][2]]

HasName(id) == names[id][1]

\* C10: deviceSupportsOutput(id) is true exactly when the output stream
\* configuration was fetched, has at least one buffer and no buffer without a
\* channel (false when the size probe or the data fetch fails); and the devices
\* -n switches among, -l prints and a name lookup returns are the output-capable
\* devices of the list, in list order.
C10_FilteredList ==
    /\ \A id \in Ids : deviceSupportsOutput(id) <=> SupportsOutput(id)
    /\ (RanNext /\ listErr = "ok") => outputDevices = Filtered
    /\ (RanList /\ listErr = "ok") =>
          LET shown == SelectSeq(Filtered, HasName)
          IN  ItemTexts = [k \in DOMAIN shown |-> names[shown[k]][2]]
    /\ (RanByName /\ listErr = "ok" /\ found # kAudioObjectUnknown) =>
          found \in Range(Filtered)

\* -n built its output array from a list that holds, before its first output
\* device, a device whose fetch fails and a device with a buffer without a channel.
C10_Witness ==
    /\ RanNext /\ listErr = "ok"
    /\ outputDevices # <<>>
    /\ outputDevices = Filtered
    /\ outputDevices[1] # devices[1]
    /\ \E i \in DOMAIN devices : streams[devices[i]] = <<"ok", <<2, 0>>>>
    /\ \E i \in DOMAIN devices : streams[devices[i]][1] = "dataErr"

\* The last run was a usage error: no argument, or a first argument that is no
\* option among several arguments.
RanUsageError ==
    Exited /\ (Len(argv) = 0 \/ (argv[1] \notin Options /\ Len(argv) # 1))

\* C11: the default output register changes only through
\* setDefaultOutputDevice: -l, -h and the usage errors never call it and leave
\* the register; -n and a device name call it at most once (no retry); a run
\* that changed the register made one successful call with the new value; and
\* after a failed write the register is what it was before the run.
C11_OnlyThroughSetDefault ==
    /\ (RanList \/ RanHelp \/ RanUsageError) =>
          setCalls = <<>> /\ defaultOutput = prevDefault
    /\ Len(setCalls) <= 1
    /\ setErr => (Len(setCalls) = 1 /\ defaultOutput = prevDefault)
    /\ defaultOutput # prevDefault => (~setErr /\ setCalls = <<defaultOutput>>)
    /\ ~Exited => defaultOutput = prevDefault

\* The write of -n failed: one call, to another device than the default, and
\* the default is what it was.
C11_Witness ==
    /\ RanNext /\ setErr
    /\ Len(setCalls) = 1
    /\ setCalls[1] # prevDefault
    /\ defaultOutput = prevDefault

\* C12: on any list of distinct ids, any output capabilities and any current
\* default, what a -n run passed to setDefaultOutputDevice (nothing, or one
\* device) is what the single pass of src/main.c selects and what the filter
\* pass and index search of part_000 select: the two variants agree.
C12_VariantsAgree ==
    /\ (RanNext /\ listErr = "ok") =>
          /\ setCalls = SelectionNew(curRead)
          /\ setCalls = SelectionOld(curRead)
    /\ \A cur \in 0..MaxDevices : SelectionNew(cur) = SelectionOld(cur)

\* The older variant switched from a default that is in the output array, behind
\* a device without output: the loop index and the array index differ.
C12_Witness ==
    /\ RanNext /\ listErr = "ok" /\ variant = "old"
    /\ setCalls # <<>>
    /\ PositionIn(Filtered, curRead) >= 0
    /\ PositionIn(devices, curRead) > PositionIn(Filtered, curRead)
    /\ setCalls = SelectionNew(curRead)

====
